---- MODULE Spec2Model ----
(***************************************************************************)
(* Transcript QC engine (qc_core.py): page segmentation, text and time     *)
(* comparison, the 29 field comparisons, aggregation, the notice parser    *)
(* and the run_qc orchestrator.                                            *)
(*                                                                         *)
(* Python strings are sequences of one-character strings; None is the      *)
(* value None below.  A similarity is a fraction <<num, den>>.             *)
(***************************************************************************)
EXTENDS Integers, Sequences, FiniteSets, TLC

VARIABLES lines, i, pages, current_page, data_pages, split_pc,
          call, ret,
          job_folder, pc, txt_path, pdf_path, txt_data, pdf_data, job_number,
          sheets, rb_data, clock, all_results, grouped, counts, report, summary,
          error, io_log, other

split_vars == <<lines, i, pages, current_page, data_pages, split_pc>>
call_vars == <<call, ret>>
run_vars ==
  <<job_folder, pc, txt_path, pdf_path, txt_data, pdf_data, job_number, sheets,
    rb_data, clock, all_results, grouped, counts, report, summary, error, io_log,
    other>>
vars == <<split_vars, call_vars, run_vars>>

(***************************************************************************)
(* Bounds                                                                  *)
(***************************************************************************)
MaxLines == 4

(***************************************************************************)
(* Strings                                                                 *)
(***************************************************************************)
None == <<"None">>

Truthy(s) == s # None /\ s # <<>>

WS == {" ", "\t", "\n"}

Digits == <<"0", "1", "2", "3", "4", "5", "6", "7", "8", "9">>

IsDigit(c) == \E d \in 1..10 : Digits[d] = c

DigitVal(c) == (CHOOSE d \in 1..10 : Digits[d] = c) - 1

RECURSIVE LStrip(_)
LStrip(s) == IF s # <<>> /\ Head(s) \in WS THEN LStrip(Tail(s)) ELSE s

RECURSIVE RStrip(_)
RStrip(s) ==
  IF s # <<>> /\ s[Len(s)] \in WS THEN RStrip(SubSeq(s, 1, Len(s) - 1)) ELSE s

\* str.strip()
Strip(s) == RStrip(LStrip(s))

\* int() of a string of decimal digits
RECURSIVE ParseInt(_)
ParseInt(s) ==
  IF s = <<>> THEN 0
  ELSE 10 * ParseInt(SubSeq(s, 1, Len(s) - 1)) + DigitVal(s[Len(s)])

(***************************************************************************)
(* TXTParser._split_pages                                                  *)
(***************************************************************************)
\* PAGE_NUMBER_REGEX = ^\s*(\d{1,4})\s*$ matched against the stripped line
PAGE_NUMBER_REGEX(s) ==
  LET t == Strip(s)
  IN  Len(t) >= 1 /\ Len(t) <= 4 /\ \A k \in 1..Len(t) : IsDigit(t[k])

EmptyMap == [p \in {} |-> <<>>]

LineSamples ==
  { <<"1">>, <<"2">>, <<"3">>, <<" ", "0", "2", "\t">>, <<"H", "e", "l", "l", "o">>,
    <<"W", "o", "r", "l", "d">>, <<"A">>, <<"B">>,
    <<"1", "2", "3", "4", "5">>, <<>> }

RECURSIVE SeqsUpTo(_, _)
SeqsUpTo(S, n) ==
  IF n = 0 THEN {<<>>}
  ELSE LET shorter == SeqsUpTo(S, n - 1)
       IN  shorter \cup {Append(q, x) : q \in {r \in shorter : Len(r) = n - 1}, x \in S}

\* no second invocation of run_qc whose locals are kept aside
NoOther == [pc |-> "none"]

\* no run_qc invocation: nothing read, no locals bound
RunIdle ==
  /\ job_folder = [isdir |-> FALSE, name |-> <<>>, txt |-> <<>>, pdf |-> <<>>]
  /\ pc = "idle"
  /\ txt_path = <<>> /\ pdf_path = <<>>
  /\ txt_data = <<>> /\ pdf_data = <<>>
  /\ job_number = <<>>
  /\ sheets = <<>> /\ rb_data = <<>>
  /\ clock = <<>>
  /\ all_results = <<>> /\ grouped = <<>> /\ counts = <<>>
  /\ report = <<>> /\ summary = <<>>
  /\ error = "" /\ io_log = <<>>
  /\ other = NoOther

SplitIdle ==
  /\ lines = <<>>
  /\ i = 0
  /\ pages = EmptyMap
  /\ current_page = 0
  /\ data_pages = EmptyMap
  /\ split_pc = "idle"

\* TXTData() has pages = {}; load hands the file's lines to _split_pages
InitPages ==
  /\ lines \in SeqsUpTo(LineSamples, MaxLines)
  /\ i = 0
  /\ pages = EmptyMap
  /\ current_page = 0
  /\ data_pages = EmptyMap
  /\ split_pc = "start"

\* pages = {}; current_page = 1; pages[current_page] = []
SplitBegin ==
  /\ split_pc = "start"
  /\ pages' = (1 :> <<>>)
  /\ current_page' = 1
  /\ i' = 1
  /\ split_pc' = "loop"
  /\ UNCHANGED <<lines, data_pages, call_vars, run_vars>>

\* SplitPagesOf with "if num not in pages" left out: a repeated marker reopens its page
SplitPagesOf_reopen(pgs, cur, line) ==
  IF PAGE_NUMBER_REGEX(Strip(line))
  THEN LET num == ParseInt(Strip(line))
       IN  [p \in DOMAIN pgs \cup {num} |-> IF p = num THEN <<>> ELSE pgs[p]]
  ELSE [pgs EXCEPT ![cur] = Append(@, line)]

\* SplitPagesOf with "pages = {}" run again at every new marker
SplitPagesOf_fresh(pgs, cur, line) ==
  IF PAGE_NUMBER_REGEX(Strip(line))
  THEN LET num == ParseInt(Strip(line))
       IN  IF num \notin DOMAIN pgs THEN (num :> <<>>) ELSE pgs
  ELSE [pgs EXCEPT ![cur] = Append(@, line)]

\* the effect of one iteration of "for line in lines" on (pages, current_page)
SplitPagesOf(pgs, cur, line) ==
  IF PAGE_NUMBER_REGEX(Strip(line))
  THEN LET num == ParseInt(Strip(line))
       IN  IF num \notin DOMAIN pgs
           THEN [p \in DOMAIN pgs \cup {num} |-> IF p = num THEN <<>> ELSE pgs[p]]
           ELSE pgs
  ELSE [pgs EXCEPT ![cur] = Append(@, line)]

SplitCurrentOf(pgs, cur, line) ==
  IF PAGE_NUMBER_REGEX(Strip(line)) /\ ParseInt(Strip(line)) \notin DOMAIN pgs
  THEN ParseInt(Strip(line))
  ELSE cur

SplitLine ==
  /\ split_pc = "loop"
  /\ i <= Len(lines)
  /\ pages' = SplitPagesOf(pages, current_page, lines[i])
  /\ current_page' = SplitCurrentOf(pages, current_page, lines[i])
  /\ i' = i + 1
  /\ UNCHANGED <<lines, data_pages, split_pc, call_vars, run_vars>>

\* data.pages = pages
SplitEnd ==
  /\ split_pc = "loop"
  /\ i > Len(lines)
  /\ data_pages' = pages
  /\ split_pc' = "done"
  /\ UNCHANGED <<lines, i, pages, current_page, call_vars, run_vars>>

CallIdle == call = [fn |-> "none"] /\ ret = [returned |-> FALSE]

NextPages == SplitBegin \/ SplitLine \/ SplitEnd

PagesInit == InitPages /\ CallIdle /\ RunIdle

SpecPages == PagesInit /\ [][NextPages]_vars

(***************************************************************************)
(* Module 2: PDFParser.  A page text is the sequence of its chunks; a      *)
(* chunk [kind, value] is a stretch of text that the pattern of one notice *)
(* field matches (value: the text the field takes from it), or filler that *)
(* no pattern matches.  A document is [opens, pages]; a page is            *)
(* [result, text] with result "text", "none" (extract_text returns None)   *)
(* or "raise" (extract_text raises).                                       *)
(***************************************************************************)
NoticeFields ==
  {"court_heading", "case_number", "case_style", "witness_name", "date",
   "start_time", "location"}

\* PDFParser._find: the first match of the field's pattern, or ""
PDFParser_find(text, kind) ==
  IF \E k \in 1..Len(text) : text[k].kind = kind
  THEN text[CHOOSE k \in 1..Len(text) :
              text[k].kind = kind /\ \A h \in 1..(k - 1) : text[h].kind # kind].value
  ELSE <<>>

\* PDFParser._extract_court_heading: the shared heading detection, then
\* the fallback _find_heading_block
PDFParser_extract_court_heading(text) ==
  IF Truthy(PDFParser_find(text, "court_heading"))
  THEN PDFParser_find(text, "court_heading")
  ELSE PDFParser_find(text, "court_heading_fallback")

\* the loop of lines 270-275 over the first n pages:
\* [raised, first_page_text, text]
RECURSIVE ReadPages(_, _)
ReadPages(doc, n) ==
  IF ~doc.opens THEN [raised |-> TRUE, first_page_text |-> <<>>, text |-> <<>>]
  ELSE IF n = 0 THEN [raised |-> FALSE, first_page_text |-> <<>>, text |-> <<>>]
  ELSE LET before == ReadPages(doc, n - 1)
           page == doc.pages[n]
           page_text == IF page.result = "text" THEN page.text ELSE <<>>
       IN  IF before.raised \/ page.result = "raise"
           THEN [raised |-> TRUE, first_page_text |-> <<>>, text |-> <<>>]
           ELSE [raised |-> FALSE,
                 first_page_text |-> IF n = 1 THEN page_text ELSE before.first_page_text,
                 text |-> before.text \o page_text]

\* the fields of lines 279-290 taken from primary_text
NoticeData(first_page_text, text) ==
  LET primary_text == IF first_page_text # <<>> THEN first_page_text ELSE text
  IN  [f \in NoticeFields |->
         IF f = "court_heading" THEN PDFParser_extract_court_heading(primary_text)
         ELSE PDFParser_find(primary_text, f)]

\* PDFParser.load with the try around PdfReader(path) only, so that a
\* failing page.extract_text() propagates
PDFParser_load_open_only(doc) ==
  LET r == ReadPages(doc, Len(doc.pages))
  IN  IF ~doc.opens THEN [raised |-> FALSE, value |-> EmptyMap]
      ELSE IF r.raised THEN [raised |-> TRUE, value |-> EmptyMap]
      ELSE [raised |-> FALSE, value |-> NoticeData(r.first_page_text, r.text)]

\* PDFParser.load: [raised, value]
PDFParser_load(doc) ==
  LET r == ReadPages(doc, Len(doc.pages))
  IN  IF r.raised THEN [raised |-> FALSE, value |-> EmptyMap]
      ELSE [raised |-> FALSE, value |-> NoticeData(r.first_page_text, r.text)]

(***************************************************************************)
(* Module 4A: comparison utilities                                         *)
(***************************************************************************)
UpperChars ==
  <<"A", "B", "C", "D", "E", "F", "G", "H", "I", "J", "K", "L", "M",
    "N", "O", "P", "Q", "R", "S", "T", "U", "V", "W", "X", "Y", "Z">>

LowerChars ==
  <<"a", "b", "c", "d", "e", "f", "g", "h", "i", "j", "k", "l", "m",
    "n", "o", "p", "q", "r", "s", "t", "u", "v", "w", "x", "y", "z">>

LowerChar(c) ==
  IF \E k \in 1..26 : UpperChars[k] = c
  THEN LowerChars[CHOOSE k \in 1..26 : UpperChars[k] = c]
  ELSE c

UpperChar(c) ==
  IF \E k \in 1..26 : LowerChars[k] = c
  THEN UpperChars[CHOOSE k \in 1..26 : LowerChars[k] = c]
  ELSE c

\* str.lower(), str.upper()
Lower(s) == [k \in 1..Len(s) |-> LowerChar(s[k])]

Upper(s) == [k \in 1..Len(s) |-> UpperChar(s[k])]

\* re.sub(r"\s+", " ", s): every run of whitespace becomes one space
RECURSIVE CollapseWs(_)
CollapseWs(s) ==
  IF s = <<>> THEN <<>>
  ELSE LET front == SubSeq(s, 1, Len(s) - 1)
           c == s[Len(s)]
       IN  IF c \in WS
           THEN IF front # <<>> /\ front[Len(front)] \in WS
                THEN CollapseWs(front)
                ELSE Append(CollapseWs(front), " ")
           ELSE Append(CollapseWs(front), c)

\* normalize_ws without the trailing .strip()
normalize_ws_nostrip(s) == IF ~Truthy(s) THEN <<>> ELSE CollapseWs(s)

normalize_ws(s) == IF ~Truthy(s) THEN <<>> ELSE Strip(CollapseWs(s))

normalize_case(s) == Upper(normalize_ws(s))

\* {x[i:i+2] for i in range(len(x)-1)}
\* bigrams with range(len(x)): the last window is the last character alone
bigrams_to_end(x) ==
  {SubSeq(x, k, IF k < Len(x) THEN k + 1 ELSE k) : k \in 1..Len(x)}

bigrams(x) == {SubSeq(x, k, k + 1) : k \in 1..(Len(x) - 1)}

\* similar dividing by len(A) instead of len(A | B)
similar_over_first(a, b) ==
  IF ~Truthy(a) /\ ~Truthy(b) THEN <<1, 1>>
  ELSE IF ~Truthy(a) \/ ~Truthy(b) THEN <<0, 1>>
  ELSE LET A == bigrams(Lower(a))
           B == bigrams(Lower(b))
       IN  IF A = {} /\ B = {} THEN <<1, 1>>
           ELSE IF A = {} \/ B = {} THEN <<0, 1>>
           ELSE <<Cardinality(A \cap B), Cardinality(A)>>

\* the float returned is the fraction <<numerator, denominator>>
similar(a, b) ==
  IF ~Truthy(a) /\ ~Truthy(b) THEN <<1, 1>>
  ELSE IF ~Truthy(a) \/ ~Truthy(b) THEN <<0, 1>>
  ELSE LET A == bigrams(Lower(a))
           B == bigrams(Lower(b))
       IN  IF A = {} /\ B = {} THEN <<1, 1>>
           ELSE IF A = {} \/ B = {} THEN <<0, 1>>
           ELSE <<Cardinality(A \cap B), Cardinality(A \cup B)>>

\* s >= t for fractions with positive denominators
FracGE(s, t) == s[1] * t[2] >= t[1] * s[2]

EXACT_THR == <<90, 100>>

PARTIAL_THR == <<60, 100>>

\* ComparisonResult.__init__
ComparisonResult(index, group, field, txt, pdf, rb, status, notes) ==
  [index |-> index, group |-> group, field |-> field,
   txt |-> IF Truthy(txt) THEN txt ELSE <<>>,
   pdf |-> IF Truthy(pdf) THEN pdf ELSE <<>>,
   rb |-> IF Truthy(rb) THEN rb ELSE <<>>,
   status |-> status, notes |-> notes]

\* rate_text with s > EXACT_THR in place of s >= EXACT_THR
rate_text_strict(src, t_txt, t_src) ==
  IF Truthy(t_src)
  THEN LET s == similar(t_txt, t_src)
       IN  IF ~FracGE(EXACT_THR, s) THEN src \o "_EXACT"
           ELSE IF FracGE(s, PARTIAL_THR) THEN src \o "_PARTIAL"
           ELSE src \o "_NONE"
  ELSE src \o "_MISSING"

\* compare_text lines 471-480 (src = "PDF") and 482-491 (src = "RB")
rate_text(src, t_txt, t_src) ==
  IF Truthy(t_src)
  THEN LET s == similar(t_txt, t_src)
       IN  IF FracGE(s, EXACT_THR) THEN src \o "_EXACT"
           ELSE IF FracGE(s, PARTIAL_THR) THEN src \o "_PARTIAL"
           ELSE src \o "_NONE"
  ELSE src \o "_MISSING"

\* r.endswith(suffix) for the rating strings
endswith(r, suffix) == r \in {"PDF_" \o suffix, "RB_" \o suffix}

\* the results list compare_text builds once t_txt is non-empty
text_results(t_txt, t_pdf, t_rb) ==
  <<rate_text("PDF", t_txt, t_pdf), rate_text("RB", t_txt, t_rb)>>

\* compare_text lines 493-501
text_status(results) ==
  LET rs == {results[k] : k \in 1..Len(results)}
  IN  IF \A r \in {x \in rs : ~endswith(x, "MISSING")} : endswith(r, "EXACT")
      THEN "EXACT_MATCH"
      ELSE IF \E r \in rs : endswith(r, "EXACT") \/ endswith(r, "PARTIAL")
           THEN IF \E r \in rs : endswith(r, "NONE") THEN "NO_MATCH"
                ELSE "PARTIAL_MATCH"
           ELSE "NO_MATCH"

\* the results list at the return of compare_text ([] on the early return)
compare_text_results(txt, pdf, rb) ==
  IF ~Truthy(normalize_ws(txt)) THEN <<>>
  ELSE text_results(normalize_ws(txt), normalize_ws(pdf), normalize_ws(rb))

compare_text(index, group, field, txt, pdf, rb) ==
  LET t_txt == normalize_ws(txt)
      t_pdf == normalize_ws(pdf)
      t_rb == normalize_ws(rb)
  IN  IF ~Truthy(t_txt)
      THEN ComparisonResult(index, group, field, t_txt, t_pdf, t_rb,
             IF Truthy(t_pdf) \/ Truthy(t_rb) THEN "MISSING" ELSE "MISSING", <<>>)
      ELSE ComparisonResult(index, group, field, t_txt, t_pdf, t_rb,
             text_status(text_results(t_txt, t_pdf, t_rb)), <<>>)

(***************************************************************************)
(* Times of day.  A datetime.time is the number of tenths of a second      *)
(* since midnight; NoTime is the None of parse_time_val.  A date is a day  *)
(* number.                                                                 *)
(***************************************************************************)
NoTime == -1

TenthsPerMinute == 600

TenthsPerDay == 864000

\* s.split(sep) on one separator character
RECURSIVE SplitOn(_, _)
SplitOn(s, sep) ==
  IF \A k \in 1..Len(s) : s[k] # sep THEN <<s>>
  ELSE LET k == CHOOSE h \in 1..Len(s) : s[h] = sep /\ \A g \in 1..(h - 1) : s[g] # sep
       IN  <<SubSeq(s, 1, k - 1)>> \o SplitOn(SubSeq(s, k + 1, Len(s)), sep)

AllDigits(x) == Len(x) >= 1 /\ \A k \in 1..Len(x) : IsDigit(x[k])

\* dateutil.parser.parse(s).time() for clock texts H:MM[:SS[.f]] [AM|PM];
\* any other text makes the parser raise, which parse_time_val turns into None
ParseClock(s) ==
  LET t == Strip(s)
      tail2 == IF Len(t) >= 2 THEN Upper(SubSeq(t, Len(t) - 1, Len(t))) ELSE <<>>
      ampm == IF tail2 = <<"A", "M">> THEN "AM"
              ELSE IF tail2 = <<"P", "M">> THEN "PM" ELSE "24"
      body == IF ampm = "24" THEN t ELSE Strip(SubSeq(t, 1, Len(t) - 2))
      parts == SplitOn(body, ":")
      secs == IF Len(parts) = 3 THEN SplitOn(parts[3], ".") ELSE << <<"0", "0">> >>
      shaped == /\ Len(parts) \in {2, 3}
                /\ AllDigits(parts[1]) /\ Len(parts[1]) <= 2
                /\ AllDigits(parts[2]) /\ Len(parts[2]) = 2
                /\ Len(secs) \in {1, 2}
                /\ AllDigits(secs[1]) /\ Len(secs[1]) = 2
                /\ Len(secs) = 2 => (AllDigits(secs[2]) /\ Len(secs[2]) = 1)
  IN  IF ~shaped THEN NoTime
      ELSE LET h == ParseInt(parts[1])
               m == ParseInt(parts[2])
               sec == ParseInt(secs[1])
               f == IF Len(secs) = 2 THEN ParseInt(secs[2]) ELSE 0
               hour == IF ampm = "PM" /\ h < 12 THEN h + 12
                       ELSE IF ampm = "AM" /\ h = 12 THEN 0 ELSE h
           IN  IF (ampm # "24" /\ h > 12) \/ hour > 23 \/ m > 59 \/ sec > 59
               THEN NoTime
               ELSE ((hour * 60 + m) * 60 + sec) * 10 + f

parse_time_val(s) == IF ~Truthy(s) THEN NoTime ELSE ParseClock(s)

Abs(x) == IF x < 0 THEN 0 - x ELSE x

\* today1 and today2 are the dates the two datetime.today() calls return;
\* the result in minutes is a fraction (<<-1, 1>> for None)
time_diff_minutes(t1, t2, today1, today2) ==
  IF t1 = NoTime \/ t2 = NoTime THEN <<-1, 1>>
  ELSE LET dt1 == today1 * TenthsPerDay + t1
           dt2 == today2 * TenthsPerDay + t2
       IN  <<Abs(dt1 - dt2), TenthsPerMinute>>

\* the results list compare_time builds once T_txt is a time;
\* today[1..2] are read for the notice, today[3..4] for the record
time_results(T_txt, T_pdf, T_rb, today) ==
  << IF T_pdf # NoTime
     THEN LET d == time_diff_minutes(T_txt, T_pdf, today[1], today[2])
          IN  IF d # <<-1, 1>> /\ FracGE(<<5, 1>>, d) THEN "PDF_OK" ELSE "PDF_NONE"
     ELSE "PDF_MISSING",
     IF T_rb # NoTime
     THEN LET d == time_diff_minutes(T_txt, T_rb, today[3], today[4])
          IN  IF d # <<-1, 1>> /\ FracGE(<<1, 100>>, d) THEN "RB_EXACT" ELSE "RB_NONE"
     ELSE "RB_MISSING" >>

\* time_status without the test for a NONE in the second branch
time_status_anyok(results) ==
  LET rs == {results[k] : k \in 1..Len(results)}
  IN  IF \A r \in {x \in rs : ~endswith(x, "MISSING")} : r \in {"PDF_OK", "RB_EXACT"}
      THEN "EXACT_MATCH"
      ELSE IF \E r \in rs : r \in {"PDF_OK", "RB_EXACT"}
           THEN "PARTIAL_MATCH"
           ELSE "NO_MATCH"

\* compare_time lines 528-533
time_status(results) ==
  LET rs == {results[k] : k \in 1..Len(results)}
  IN  IF \A r \in {x \in rs : ~endswith(x, "MISSING")} : r \in {"PDF_OK", "RB_EXACT"}
      THEN "EXACT_MATCH"
      ELSE IF \E r \in rs : r \in {"PDF_OK", "RB_EXACT"}
           THEN IF ~(\E r \in rs : endswith(r, "NONE")) THEN "PARTIAL_MATCH"
                ELSE "NO_MATCH"
           ELSE "NO_MATCH"

compare_time_results(txt, pdf, rb, today) ==
  IF parse_time_val(txt) = NoTime THEN <<>>
  ELSE time_results(parse_time_val(txt), parse_time_val(pdf), parse_time_val(rb), today)

compare_time(index, group, field, txt, pdf, rb, today) ==
  LET T_txt == parse_time_val(txt)
      T_pdf == parse_time_val(pdf)
      T_rb == parse_time_val(rb)
  IN  IF T_txt = NoTime
      THEN ComparisonResult(index, group, field, txt, pdf, rb, "MISSING", <<>>)
      ELSE ComparisonResult(index, group, field, txt, pdf, rb,
             time_status(time_results(T_txt, T_pdf, T_rb, today)), <<>>)

(***************************************************************************)
(* Module 4B: run_all_comparisons                                          *)
(***************************************************************************)
\* dict.get(key, default)
Get(d, key, default) == IF key \in DOMAIN d THEN d[key] ELSE default

\* str(n) for n >= 0
RECURSIVE StrInt(_)
StrInt(n) ==
  IF n < 10 THEN <<Digits[n + 1]>> ELSE StrInt(n \div 10) \o <<Digits[(n % 10) + 1]>>

\* sep.join(parts)
RECURSIVE Join(_, _)
Join(parts, sep) ==
  IF parts = <<>> THEN <<>>
  ELSE IF Len(parts) = 1 THEN parts[1]
  ELSE parts[1] \o sep \o Join(Tail(parts), sep)

\* str() of a list of ints, of a list of (int, int) and of a dict int -> list of ints
StrIntList(q) == <<"[">> \o Join([k \in 1..Len(q) |-> StrInt(q[k])], <<",", " ">>) \o <<"]">>

StrPairList(q) ==
  <<"[">> \o Join([k \in 1..Len(q) |->
                    <<"(">> \o StrInt(q[k][1]) \o <<",", " ">> \o StrInt(q[k][2]) \o <<")">>],
                  <<",", " ">>) \o <<"]">>

StrLocations(q) ==
  <<"{">> \o Join([k \in 1..Len(q) |-> StrInt(q[k][1]) \o <<":", " ">> \o StrIntList(q[k][2])],
                  <<",", " ">>) \o <<"}">>

\* cap.startswith(x) in place of x in cap
Contains_prefix(cap, x) == Len(x) <= Len(cap) /\ SubSeq(cap, 1, Len(x)) = x

\* x in cap for strings: x occurs as a substring of cap
Contains(cap, x) ==
  \E k \in 0..(Len(cap) - Len(x)) : SubSeq(cap, k + 1, k + Len(x)) = x

Yes == <<"Y", "e", "s">>

No == <<"N", "o">>

\* a presence check: EXACT_MATCH if the value is truthy, else NO_MATCH
presence(index, group, field, shown, present) ==
  ComparisonResult(index, group, field, shown, <<>>, <<>>,
                   IF present THEN "EXACT_MATCH" ELSE "NO_MATCH", <<>>)

\* results 1-9; today[1..4] are the dates read for Start Time
title_results(t_data, p_data, r_data, today) ==
  LET title == t_data.title
      fields == r_data.fields
  IN  << compare_text(1, "Title Page", "Court Heading", Get(title, "court_heading", None),
                      Get(p_data, "court_heading", None), Get(fields, "Case Court/County", <<>>)),
         compare_text(2, "Title Page", "Case Number", Get(title, "case_number", None),
                      Get(p_data, "case_number", None), Get(fields, "CaseNo", <<>>)),
         compare_text(3, "Title Page", "Case Style", Get(title, "case_style", None),
                      Get(p_data, "case_style", None), Get(fields, "CaseFullName", <<>>)),
         compare_text(4, "Title Page", "Job Title", Get(title, "job_title", None),
                      <<>>, Get(fields, "TaskType", <<>>)),
         compare_text(5, "Title Page", "Witness Name", Get(title, "witness_name", None),
                      Get(p_data, "witness_name", None), Get(fields, "Witness", <<>>)),
         compare_text(6, "Title Page", "Date", Get(title, "date", None),
                      Get(p_data, "date", None), Get(fields, "JobDate", <<>>)),
         compare_time(7, "Title Page", "Start Time", Get(title, "start_time", None),
                      Get(p_data, "start_time", None), Get(fields, "ActualStartTime", <<>>),
                      SubSeq(today, 1, 4)),
         compare_text(8, "Title Page", "Location", Get(title, "location", None),
                      Get(p_data, "location", None), Get(fields, "JobLocAddress", <<>>)),
         compare_text(9, "Title Page", "Resource", Get(title, "resource", None),
                      <<>>, Get(fields, "Resource", <<>>)) >>

\* results 10-12
appearances_results(t_data) ==
  LET app == t_data.appearances
      sides == Get(app, "sides", <<>>)
      cap == normalize_case(Get(t_data.title, "case_style", <<>>))
      ok == \E k \in 1..Len(sides) : Contains(cap, normalize_case(sides[k]))
      atty == Get(app, "attorneys", <<>>)
  IN  << presence(10, "Appearances", "Appearances Heading Present",
                  IF Get(app, "heading_present", FALSE) THEN Yes ELSE No,
                  Get(app, "heading_present", FALSE)),
         presence(11, "Appearances", "On Behalf of Side Matches Title Page",
                  Join(sides, <<",", " ">>), ok),
         presence(12, "Appearances", "Attorney Names / Contact Info Present",
                  Join(atty, <<",", " ">>), atty # <<>>) >>

\* results 13-18
indices_results(t_data, r_data) ==
  LET ind == t_data.indices
      exam_blk == Get(ind, "exam_index_block", <<>>)
      exam_pages == Get(ind, "exam_pages", <<>>)
      exhibit_blk == Get(ind, "exhibit_index_block", <<>>)
      exhibit_pages == Get(ind, "exhibit_pages", <<>>)
      exloc == Get(t_data.exhibits, "locations", <<>>)
  IN  << compare_text(13, "Indices", "Witness Name (Index Page Verification)",
                      Get(t_data.title, "witness_name", None), <<>>,
                      Get(r_data.fields, "Witness", <<>>)),
         presence(14, "Indices", "Index to Examinations Present",
                  IF Truthy(exam_blk) THEN Yes ELSE No, Truthy(exam_blk)),
         presence(15, "Indices", "Index to Examinations Page Numbers Correct",
                  StrIntList(exam_pages), exam_pages # <<>>),
         presence(16, "Indices", "Index to Exhibits Present",
                  IF Truthy(exhibit_blk) THEN Yes ELSE No, Truthy(exhibit_blk)),
         presence(17, "Indices", "Index to Exhibits Page Numbers Correct",
                  StrPairList(exhibit_pages), exhibit_pages # <<>>),
         presence(18, "Indices", "Exhibit Parentheticals Present",
                  StrLocations(exloc), exloc # <<>>) >>

\* results 19-22; today[5..6] are the dates read for End Time
ending_results(t_data, r_data, today) ==
  LET sig == Get(t_data.ending, "signature", None)
  IN  << compare_text(19, "Ending", "Job Title Heading (Ending Section)",
                      Get(t_data.title, "job_title", None), <<>>,
                      Get(r_data.fields, "TaskType", <<>>)),
         compare_text(20, "Ending", "Date (Ending Section)",
                      Get(t_data.title, "date", None), <<>>,
                      Get(r_data.fields, "JobDate", <<>>)),
         compare_time(21, "Ending", "End Time", Get(t_data.ending, "end_time", None),
                      <<>>, Get(r_data.fields, "ActualEndTime", <<>>),
                      <<today[5], today[5], today[5], today[6]>>),
         presence(22, "Ending", "Signature Parenthetical", sig, Truthy(sig)) >>

\* results 23-25
disclosure_results(t_data, r_data) ==
  LET blk == Get(t_data.disclosure, "block", <<>>)
  IN  << presence(23, "Disclosure", "Disclosure Page Present",
                  IF Truthy(blk) THEN Yes ELSE No, Truthy(blk)),
         compare_text(24, "Disclosure", "Disclosure Date",
                      Get(t_data.disclosure, "date", None), <<>>,
                      Get(r_data.fields, "JobDate", <<>>)),
         compare_text(25, "Disclosure", "Disclosure Resource",
                      Get(t_data.disclosure, "resource", None), <<>>,
                      Get(r_data.fields, "Resource", <<>>)) >>

\* results 26-29
certificate_results(t_data, r_data) ==
  LET blk == Get(t_data.certificate, "block", <<>>)
      crt == Get(t_data.certificate, "court", <<>>)
  IN  << presence(26, "Certificate", "Certificate Heading Present",
                  IF Truthy(blk) THEN Yes ELSE No, Truthy(blk)),
         presence(27, "Certificate", "Certificate Court Subheading Present",
                  crt, Truthy(crt)),
         compare_text(28, "Certificate", "Certificate Date",
                      Get(t_data.certificate, "date", None), <<>>,
                      Get(r_data.fields, "JobDate", <<>>)),
         compare_text(29, "Certificate", "Certificate Resource",
                      Get(t_data.certificate, "resource", None), <<>>,
                      Get(r_data.fields, "Resource", <<>>)) >>

\* run_all_comparisons appending the Disclosure results before the Ending results
run_all_comparisons_reordered(t_data, p_data, r_data, today) ==
  title_results(t_data, p_data, r_data, today)
    \o appearances_results(t_data)
    \o indices_results(t_data, r_data)
    \o disclosure_results(t_data, r_data)
    \o ending_results(t_data, r_data, today)
    \o certificate_results(t_data, r_data)

\* today: the dates the six datetime.today() calls of the two compare_time return
run_all_comparisons(t_data, p_data, r_data, today) ==
  title_results(t_data, p_data, r_data, today)
    \o appearances_results(t_data)
    \o indices_results(t_data, r_data)
    \o ending_results(t_data, r_data, today)
    \o disclosure_results(t_data, r_data)
    \o certificate_results(t_data, r_data)

(***************************************************************************)
(* Module 4C: organize_results                                             *)
(***************************************************************************)
\* list.sort(key=lambda x: x.index): stable, ascending
RECURSIVE SortByIndex(_)
SortByIndex(q) ==
  IF q = <<>> THEN <<>>
  ELSE LET front == SortByIndex(SubSeq(q, 1, Len(q) - 1))
           x == q[Len(q)]
           k == Cardinality({j \in 1..Len(front) : front[j].index <= x.index})
       IN  SubSeq(front, 1, k) \o <<x>> \o SubSeq(front, k + 1, Len(front))

IsExact(r) == r.status = "EXACT_MATCH"

IsPartial(r) == r.status = "PARTIAL_MATCH"

IsNo(r) == r.status = "NO_MATCH"

IsOther(r) == r.status \notin {"EXACT_MATCH", "PARTIAL_MATCH", "NO_MATCH"}

\* organize_results without the four sort calls
organize_results_unsorted(results) ==
  [EXACT |-> SelectSeq(results, IsExact),
   PARTIAL |-> SelectSeq(results, IsPartial),
   NO |-> SelectSeq(results, IsNo),
   MISSING |-> SelectSeq(results, IsOther)]

organize_results(results) ==
  [EXACT |-> SortByIndex(SelectSeq(results, IsExact)),
   PARTIAL |-> SortByIndex(SelectSeq(results, IsPartial)),
   NO |-> SortByIndex(SelectSeq(results, IsNo)),
   MISSING |-> SortByIndex(SelectSeq(results, IsOther))]

(***************************************************************************)
(* Calls of the comparison functions on sample arguments                   *)
(***************************************************************************)
MaxLen == 11

MaxStr == 3

Prefix(n) == SubSeq(LowerChars, 1, n)

JaneDoe == <<"J", "a", "n", "e", " ", "D", "o", "e">>

JaneDoeLoud == <<" ", "J", "A", "N", "E", " ", "\t", "D", "O", "E", "\n">>

JohnRoe == <<"J", "o", "h", "n", " ", "R", "o", "e">>

Blank == <<" ", "\t">>

Strings == {<<>>, Blank, JaneDoe, JaneDoeLoud, JohnRoe} \cup {Prefix(n) : n \in 1..MaxLen}

TextSamples == {None} \cup Strings

NoRet == [returned |-> FALSE]

InitText ==
  /\ \E txt \in TextSamples, pdf \in TextSamples, rb \in TextSamples :
       call = [fn |-> "compare_text", index |-> 5, group |-> "Title Page",
               field |-> "Witness Name", txt |-> txt, pdf |-> pdf, rb |-> rb]
  /\ ret = NoRet

CallCompareText ==
  /\ call.fn = "compare_text"
  /\ ret = NoRet
  /\ ret' = [returned |-> TRUE,
             value |-> compare_text(call.index, call.group, call.field,
                                    call.txt, call.pdf, call.rb),
             results |-> compare_text_results(call.txt, call.pdf, call.rb)]
  /\ UNCHANGED <<call, split_vars, run_vars>>

TextInit == InitText /\ SplitIdle /\ RunIdle

NextText == CallCompareText

SpecText == TextInit /\ [][NextText]_vars

InitSimilar ==
  /\ \E a \in Strings \cup SeqsUpTo({"a", "b", "A"}, MaxStr),
        b \in Strings \cup SeqsUpTo({"a", "b", "A"}, MaxStr) :
       call = [fn |-> "similar", a |-> a, b |-> b]
  /\ ret = NoRet

\* similar(a, b) and similar(b, a)
CallSimilar ==
  /\ call.fn = "similar"
  /\ ret = NoRet
  /\ ret' = [returned |-> TRUE, ab |-> similar(call.a, call.b),
             ba |-> similar(call.b, call.a)]
  /\ UNCHANGED <<call, split_vars, run_vars>>

SimilarInit == InitSimilar /\ SplitIdle /\ RunIdle

NextSimilar == CallSimilar

SpecSimilar == SimilarInit /\ [][NextSimilar]_vars

MaxDay == 1

\* the dates successive datetime.today() calls return never go back
Clocks(n) == {c \in [1..n -> 0..MaxDay] : \A k \in 1..(n - 1) : c[k] <= c[k + 1]}

T0900 == <<"9", ":", "0", "0", " ", "A", "M">>

T0903 == <<"9", ":", "0", "3", " ", "A", "M">>

T0905 == <<"0", "9", ":", "0", "5", "a", "m">>

T0905f == <<"9", ":", "0", "5", ":", "0", "0", ".", "1", " ", "A", "M">>

T0930 == <<"9", ":", "3", "0", " ", "A", "M">>

T090000 == <<"9", ":", "0", "0", ":", "0", "0", " ", "A", "M">>

T090000f6 == <<"9", ":", "0", "0", ":", "0", "0", ".", "6", " ", "A", "M">>

T090000f7 == <<"9", ":", "0", "0", ":", "0", "0", ".", "7", " ", "A", "M">>

T2358 == <<"1", "1", ":", "5", "8", " ", "P", "M">>

T0002 == <<"1", "2", ":", "0", "2", " ", "A", "M">>

T2100 == <<"2", "1", ":", "0", "0">>

T1300PM == <<"1", "3", ":", "0", "0", " ", "P", "M">>

TBD == <<"T", "B", "D">>

TimeSamples ==
  {None, <<>>, TBD, T1300PM, T0900, T0903, T0905, T0905f, T0930, T090000,
   T090000f6, T090000f7, T2358, T0002, T2100}

InitTime ==
  /\ \E txt \in TimeSamples, pdf \in TimeSamples, rb \in TimeSamples, today \in Clocks(4) :
       call = [fn |-> "compare_time", index |-> 7, group |-> "Title Page",
               field |-> "Start Time", txt |-> txt, pdf |-> pdf, rb |-> rb,
               today |-> today]
  /\ ret = NoRet

CallCompareTime ==
  /\ call.fn = "compare_time"
  /\ ret = NoRet
  /\ ret' = [returned |-> TRUE,
             value |-> compare_time(call.index, call.group, call.field,
                                    call.txt, call.pdf, call.rb, call.today),
             results |-> compare_time_results(call.txt, call.pdf, call.rb, call.today)]
  /\ UNCHANGED <<call, split_vars, run_vars>>

TimeInit == InitTime /\ SplitIdle /\ RunIdle

NextTime == CallCompareTime

SpecTime == TimeInit /\ [][NextTime]_vars

\* the values parse_time_val returns on the sample texts
ClockTimes == {parse_time_val(s) : s \in TimeSamples}

InitDiff ==
  /\ \E t1 \in ClockTimes, t2 \in ClockTimes, today \in Clocks(2) :
       call = [fn |-> "time_diff_minutes", t1 |-> t1, t2 |-> t2, today |-> today]
  /\ ret = NoRet

CallTimeDiffMinutes ==
  /\ call.fn = "time_diff_minutes"
  /\ ret = NoRet
  /\ ret' = [returned |-> TRUE,
             value |-> time_diff_minutes(call.t1, call.t2, call.today[1], call.today[2])]
  /\ UNCHANGED <<call, split_vars, run_vars>>

DiffInit == InitDiff /\ SplitIdle /\ RunIdle

NextDiff == CallTimeDiffMinutes

SpecDiff == DiffInit /\ [][NextDiff]_vars

MaxResults == 3

MaxIndex == 3

Statuses == {"EXACT_MATCH", "PARTIAL_MATCH", "NO_MATCH", "MISSING"}

ResultSamples ==
  {ComparisonResult(n, "Title Page", "Field", <<>>, <<>>, <<>>, st, <<>>) :
     n \in 1..MaxIndex, st \in Statuses \cup {"ERROR"}}

InitOrganize ==
  /\ \E results \in SeqsUpTo(ResultSamples, MaxResults) :
       call = [fn |-> "organize_results", results |-> results]
  /\ ret = NoRet

CallOrganize ==
  /\ call.fn = "organize_results"
  /\ ret = NoRet
  /\ ret' = [returned |-> TRUE, value |-> organize_results(call.results)]
  /\ UNCHANGED <<call, split_vars, run_vars>>

OrganizeInit == InitOrganize /\ SplitIdle /\ RunIdle

NextOrganize == CallOrganize

SpecOrganize == OrganizeInit /\ [][NextOrganize]_vars

\* the section sub-records TXTParser.load leaves when nothing matches
TitleBlank ==
  [court_heading |-> <<>>, case_number |-> <<>>, case_style |-> <<>>,
   witness_name |-> <<>>, job_title |-> <<>>, job_adjectives |-> <<>>,
   date |-> <<>>, start_time |-> <<>>, location |-> <<>>, resource |-> <<>>]

TitleFull ==
  [court_heading |-> <<"S", "T", "A", "T", "E", " ", "C", "O", "U", "R", "T">>,
   case_number |-> <<"2", "0", "2", "4", "-", "7">>,
   case_style |-> <<"A", "n", "n", ",", " ", "P", "l", "a", "i", "n", "t", "i", "f", "f", " ", "v", "s", " ", "B", "o", "b", ",", " ", "D", "e", "f", "e", "n", "d", "a", "n", "t">>,
   witness_name |-> JaneDoe,
   job_title |-> <<"D", "e", "p", "o", "s", "i", "t", "i", "o", "n">>,
   job_adjectives |-> <<>>,
   date |-> <<"M", "a", "y", " ", "0", "1", ",", " ", "2", "0", "2", "4">>,
   start_time |-> T0900,
   location |-> <<"(", "R", "o", "o", "m", " ", "1", ")">>,
   resource |-> <<"A", "l", " ", "R", "o", "e", ",", " ", "C", "C", "R">>]

AppearancesSamples ==
  { [heading_present |-> FALSE, sides |-> <<>>, attorneys |-> <<>>],
    [heading_present |-> TRUE,
     sides |-> << <<"P", "l", "a", "i", "n", "t", "i", "f", "f">>, <<"D", "e", "f", "e", "n", "d", "a", "n", "t">> >>,
     attorneys |-> << <<"D", "o", "e", ",", " ", "E", "s", "q", ".">> >>],
    [heading_present |-> TRUE, sides |-> << <<"W", "i", "t", "n", "e", "s", "s">> >>, attorneys |-> <<>>] }

IndicesSamples ==
  { [exam_index_block |-> <<>>, exam_pages |-> <<>>,
     exhibit_index_block |-> <<>>, exhibit_pages |-> <<>>],
    [exam_index_block |-> <<" ", "p", ".", " ", "5">>, exam_pages |-> <<5, 12>>,
     exhibit_index_block |-> <<" ", "E", "x", "h", "i", "b", "i", "t", " ", "1", " ", "7">>, exhibit_pages |-> << <<1, 7>> >>] }

\* locations in insertion order: <<exhibit number, pages>>
ExhibitsSamples == { [locations |-> <<>>], [locations |-> << <<1, <<3, 4>> >> >>] }

EndingSamples ==
  { [end_time |-> <<>>, signature |-> <<>>],
    [end_time |-> T0903, signature |-> <<"s", "i", "g", "n", "a", "t", "u", "r", "e", " ", "r", "e", "s", "e", "r", "v", "e", "d">>] }

DisclosureSamples ==
  { [block |-> <<>>, date |-> <<>>, resource |-> <<>>],
    [block |-> <<"D", "I", "S", "C", "L", "O", "S", "U", "R", "E">>, date |-> <<"M", "a", "y", " ", "0", "1", ",", " ", "2", "0", "2", "4">>, resource |-> <<"C", "C", "R">>] }

CertificateSamples ==
  { [block |-> <<>>, court |-> <<>>, date |-> <<>>, resource |-> <<>>],
    [block |-> <<"C", "E", "R", "T", "I", "F", "I", "C", "A", "T", "E">>, court |-> <<"S", "T", "A", "T", "E", " ", "O", "F", " ", "X">>,
     date |-> <<"M", "a", "y", " ", "0", "2", ",", " ", "2", "0", "2", "4">>, resource |-> <<"A", "l", " ", "R", "o", "e", ",", " ", "C", "C", "R">>] }

\* TXTData() as constructed: every section an empty dict
FreshTXTData ==
  [title |-> EmptyMap, appearances |-> EmptyMap, indices |-> EmptyMap,
   exhibits |-> EmptyMap, ending |-> EmptyMap, disclosure |-> EmptyMap,
   certificate |-> EmptyMap]

\* the index and exhibit sections, and the closing sections, vary together
TXTDataSamples ==
  {FreshTXTData} \cup
  { [title |-> t, appearances |-> a, indices |-> x, ending |-> e,
     exhibits |-> CHOOSE y \in ExhibitsSamples :
                    (y.locations = <<>>) <=> (x.exam_pages = <<>>),
     disclosure |-> CHOOSE y \in DisclosureSamples : (y.block = <<>>) <=> (c.block = <<>>),
     certificate |-> c] :
      t \in {TitleBlank, TitleFull}, a \in AppearancesSamples, x \in IndicesSamples,
      e \in EndingSamples, c \in CertificateSamples }

\* the notice mapping: {} or the seven fields PDFParser.load sets
PDFBlank ==
  [court_heading |-> <<>>, case_number |-> <<>>, case_style |-> <<>>,
   witness_name |-> <<>>, date |-> <<>>, start_time |-> <<>>, location |-> <<>>]

PDFSame ==
  [court_heading |-> <<"S", "T", "A", "T", "E", " ", "C", "O", "U", "R", "T">>,
   case_number |-> <<"2", "0", "2", "4", "-", "7">>,
   case_style |-> <<"A", "n", "n", ",", " ", "P", "l", "a", "i", "n", "t", "i", "f", "f", " ", "v", "s", " ", "B", "o", "b", ",", " ", "D", "e", "f", "e", "n", "d", "a", "n", "t">>,
   witness_name |-> JaneDoe, date |-> <<"M", "a", "y", " ", "0", "1", ",", " ", "2", "0", "2", "4">>,
   start_time |-> T0903, location |-> <<"(", "R", "o", "o", "m", " ", "1", ")">>]

PDFOther ==
  [court_heading |-> <<"S", "T", "A", "T", "E", " ", "C", "O", "U", "R", "T", " ", "O", "F", " ", "X">>,
   case_number |-> <<>>, case_style |-> <<>>,
   witness_name |-> JohnRoe, date |-> <<"M", "a", "y", " ", "0", "2", ",", " ", "2", "0", "2", "4">>,
   start_time |-> T0930, location |-> <<>>]

PDFDataSamples == {EmptyMap, PDFBlank, PDFSame, PDFOther}

\* RBJobData(jobno): job_number and fields
RBNoFields == [job_number |-> <<>>, fields |-> EmptyMap]

RBSame ==
  [job_number |-> <<"7">>,
   fields |-> ("Case Court/County" :> <<"S", "T", "A", "T", "E", " ", "C", "O", "U", "R", "T">>)
     @@ [CaseNo |-> <<"2", "0", "2", "4", "-", "7">>,
         CaseFullName |-> <<"A", "n", "n", ",", " ", "P", "l", "a", "i", "n", "t", "i", "f", "f", " ", "v", "s", " ", "B", "o", "b", ",", " ", "D", "e", "f", "e", "n", "d", "a", "n", "t">>,
         TaskType |-> <<"D", "e", "p", "o", "s", "i", "t", "i", "o", "n">>, Witness |-> JaneDoeLoud,
         JobDate |-> <<"M", "a", "y", " ", "0", "1", ",", " ", "2", "0", "2", "4">>, ActualStartTime |-> T090000,
         JobLocAddress |-> <<"(", "R", "o", "o", "m", " ", "1", ")">>, Resource |-> <<"A", "l", " ", "R", "o", "e", ",", " ", "C", "C", "R">>,
         ActualEndTime |-> T0903]]

RBOther ==
  [job_number |-> <<"7">>,
   fields |-> ("Case Court/County" :> <<>>)
     @@ [CaseNo |-> <<"2", "0", "2", "4", "-", "9">>, CaseFullName |-> <<>>,
         TaskType |-> <<"D", "e", "p", "o", "s", "i", "t", "i", "o", "n", " ", "o", "f">>, Witness |-> JohnRoe,
         JobDate |-> <<"M", "a", "y", " ", "0", "2", ",", " ", "2", "0", "2", "4">>, ActualStartTime |-> T0930,
         JobLocAddress |-> <<>>, Resource |-> <<>>, ActualEndTime |-> T0900]]

RBDataSamples == {RBNoFields, RBSame, RBOther}

InitCompare ==
  /\ \E t_data \in TXTDataSamples, p_data \in PDFDataSamples,
        r_data \in RBDataSamples, today \in Clocks(6) :
       call = [fn |-> "run_all_comparisons", txt_data |-> t_data,
               pdf_data |-> p_data, rb_data |-> r_data, today |-> today]
  /\ ret = NoRet

CallRunAllComparisons ==
  /\ call.fn = "run_all_comparisons"
  /\ ret = NoRet
  /\ ret' = [returned |-> TRUE,
             value |-> run_all_comparisons(call.txt_data, call.pdf_data,
                                           call.rb_data, call.today)]
  /\ UNCHANGED <<call, split_vars, run_vars>>

CompareInit == InitCompare /\ SplitIdle /\ RunIdle

NextCompare == CallRunAllComparisons

SpecCompare == CompareInit /\ [][NextCompare]_vars

MaxPages == 3

Filler == [kind |-> "filler", value |-> <<"P", "l", "e", "a", "s", "e", " ", "a", "t", "t", "e", "n", "d", ".">>]

NoticePageSamples ==
  { [result |-> "raise", text |-> <<>>],
    [result |-> "none", text |-> <<>>],
    [result |-> "text", text |-> <<>>],
    [result |-> "text", text |-> <<Filler>>],
    [result |-> "text",
     text |-> << [kind |-> "court_heading", value |-> <<"S", "T", "A", "T", "E", " ", "C", "O", "U", "R", "T">>],
                 Filler,
                 [kind |-> "witness_name", value |-> JaneDoe],
                 [kind |-> "start_time", value |-> T0903],
                 [kind |-> "start_time", value |-> T0930] >>],
    [result |-> "text",
     text |-> << [kind |-> "court_heading_fallback", value |-> <<"S", "T", "A", "T", "E", " ", "C", "O", "U", "R", "T", " ", "O", "F", " ", "X">>],
                 [kind |-> "witness_name", value |-> JohnRoe],
                 [kind |-> "date", value |-> <<"M", "a", "y", " ", "0", "1", ",", " ", "2", "0", "2", "4">>] >>] }

NoticeDocSamples == [opens : BOOLEAN, pages : SeqsUpTo(NoticePageSamples, MaxPages)]

InitNotice ==
  /\ \E doc \in NoticeDocSamples : call = [fn |-> "PDFParser.load", doc |-> doc]
  /\ ret = NoRet

CallPDFLoad ==
  /\ call.fn = "PDFParser.load"
  /\ ret = NoRet
  /\ ret' = [returned |-> TRUE, raised |-> PDFParser_load(call.doc).raised,
             value |-> PDFParser_load(call.doc).value]
  /\ UNCHANGED <<call, split_vars, run_vars>>

NoticeInit == InitNotice /\ SplitIdle /\ RunIdle

NextNotice == CallPDFLoad

SpecNotice == NoticeInit /\ [][NextNotice]_vars

(***************************************************************************)
(* Module 3: RBLoader.  A sheet is [ok, frame]: whether pd.read_csv of its *)
(* URL succeeds, and the DataFrame [columns, rows] it then returns.        *)
(***************************************************************************)
EmptyFrame == [columns |-> <<>>, rows |-> <<>>]

\* RBLoader.load_sheet without the try/except: [raised, value]
load_sheet_uncaught(sheet) ==
  IF sheet.ok THEN [raised |-> FALSE, value |-> sheet.frame]
  ELSE [raised |-> TRUE, value |-> EmptyFrame]

\* RBLoader.load_sheet: [raised, value]
load_sheet(sheet) ==
  IF sheet.ok THEN [raised |-> FALSE, value |-> sheet.frame]
  ELSE [raised |-> FALSE, value |-> EmptyFrame]

Columns(df) == {df.columns[k] : k \in 1..Len(df.columns)}

\* col.replace(" ", "_") on the column names of the sheets
Underscored(col) ==
  IF col = "Firm name" THEN "Firm_name"
  ELSE IF col = "Exhibit count" THEN "Exhibit_count"
  ELSE col

\* job.set(prefix + col, row.get(col, "")) for every column of df
RowFields(df, row, prefix) ==
  [key \in {prefix \o Underscored(c) : c \in Columns(df)} |->
     LET c == CHOOSE x \in Columns(df) : prefix \o Underscored(x) = key
     IN  IF Truthy(row[c]) THEN row[c] ELSE <<>>]

\* the rows of df whose column col equals v
RowsWhere(df, col, v) ==
  LET hit(r) == r[col] = v IN SelectSeq(df.rows, hit)

\* RBLoader.get_job_data: [raised, value]
get_job_data(jobno, net) ==
  LET rb == load_sheet(net.rb_pull)
      firms == load_sheet(net.firms)
      ex == load_sheet(net.exhibits)
      df_rb == rb.value
      df_firms == firms.value
      df_ex == ex.value
      f1 == IF "JobNo" \in Columns(df_rb) /\ RowsWhere(df_rb, "JobNo", jobno) # <<>>
            THEN RowFields(df_rb, RowsWhere(df_rb, "JobNo", jobno)[1], "")
            ELSE EmptyMap
      firm_name == Lower(Strip(Get(f1, "OrderingFirm", <<>>)))
      fm == IF "Firm name" \in Columns(df_firms)
            THEN LET hit(r) == Lower(Strip(r["Firm name"])) = firm_name
                 IN  SelectSeq(df_firms.rows, hit)
            ELSE <<>>
      f2 == IF firm_name # <<>> /\ fm # <<>>
            THEN RowFields(df_firms, fm[1], "Firm_") @@ f1
            ELSE f1
      f3 == IF "JobNo" \in Columns(df_ex) /\ RowsWhere(df_ex, "JobNo", jobno) # <<>>
            THEN RowFields(df_ex, RowsWhere(df_ex, "JobNo", jobno)[1], "Ex_") @@ f2
            ELSE f2
  IN  [raised |-> rb.raised \/ firms.raised \/ ex.raised,
       value |-> [job_number |-> jobno, fields |-> f3]]

(***************************************************************************)
(* Module 6: run_qc.  job_folder is the folder on disk: [isdir, name, txt, *)
(* pdf] with txt and pdf the files glob finds, in glob's order.  A         *)
(* transcript file is [name, readable, content], content being the record  *)
(* the section extractors build from its text; a notice file is            *)
(* [name, doc].                                                            *)
(***************************************************************************)
\* re.search(r"(\d+)", name): the first run of digits, or "" for no match
FirstDigits(name) ==
  IF \A k \in 1..Len(name) : ~IsDigit(name[k]) THEN <<>>
  ELSE LET a == CHOOSE k \in 1..Len(name) :
                  IsDigit(name[k]) /\ \A h \in 1..(k - 1) : ~IsDigit(name[h])
           b == CHOOSE k \in a..Len(name) :
                  /\ \A h \in a..k : IsDigit(name[h])
                  /\ k = Len(name) \/ ~IsDigit(name[k + 1])
       IN  SubSeq(name, a, b)

_derive_job_number(folder_name, txt_name) ==
  IF FirstDigits(folder_name) # <<>> THEN FirstDigits(folder_name)
  ELSE FirstDigits(txt_name)

\* _find_first: matches[0] if matches else ""
_find_first(files) == IF files # <<>> THEN files[1].name ELSE <<>>

FileNamed(files, name) == files[CHOOSE k \in 1..Len(files) : files[k].name = name]

\* CountIn with the condition on r.status left out
CountIn_all(results, statuses) == Len(results)

\* sum(1 for r in results if r.status in statuses)
CountIn(results, statuses) ==
  Cardinality({k \in 1..Len(results) : results[k].status \in statuses})

\* sum(1 for r in results if r.status not in statuses)
CountNotIn(results, statuses) ==
  Cardinality({k \in 1..Len(results) : results[k].status \notin statuses})

ReportName == <<"Q", "C", "_", "R", "e", "p", "o", "r", "t", ".", "p", "d", "f">>

\* the file doc.build writes: one page of text no notice pattern is run on
\* before the next run
ReportFile == [name |-> ReportName,
               doc |-> [opens |-> TRUE,
                        pages |-> << [result |-> "text",
                                      text |-> << [kind |-> "filler", value |-> <<"Q", "C", " ", "S", "u", "m", "m", "a", "r", "y">>] >>] >>]]

\* lines 824-825
CheckFolder ==
  /\ pc = "isdir"
  /\ IF job_folder.isdir
     THEN pc' = "find_txt" /\ error' = error
     ELSE pc' = "raised" /\ error' = "FileNotFoundError: Job folder not found"
  /\ UNCHANGED <<job_folder, txt_path, pdf_path, txt_data, pdf_data, job_number, sheets,
                 rb_data, clock, all_results, grouped, counts, report, summary, io_log,
                 split_vars, call_vars, other>>

\* lines 827-829
FindTxt ==
  /\ pc = "find_txt"
  /\ txt_path' = _find_first(job_folder.txt)
  /\ IF _find_first(job_folder.txt) # <<>>
     THEN pc' = "find_pdf" /\ error' = error
     ELSE pc' = "raised" /\ error' = "FileNotFoundError: No TXT transcript found"
  /\ UNCHANGED <<job_folder, pdf_path, txt_data, pdf_data, job_number, sheets,
                 rb_data, clock, all_results, grouped, counts, report, summary, io_log,
                 split_vars, call_vars, other>>

\* line 831
FindPdf ==
  /\ pc = "find_pdf"
  /\ pdf_path' = _find_first(job_folder.pdf)
  /\ pc' = "read_txt"
  /\ UNCHANGED <<job_folder, txt_path, txt_data, pdf_data, job_number, sheets,
                 rb_data, clock, all_results, grouped, counts, report, summary, error,
                 io_log, split_vars, call_vars, other>>

\* TXTParser.load lines 68-70: open and read the file; an unreadable file raises
ReadTxt ==
  /\ pc = "read_txt"
  /\ io_log' = Append(io_log, "read transcript")
  /\ IF FileNamed(job_folder.txt, txt_path).readable
     THEN pc' = "extract" /\ error' = error
     ELSE pc' = "raised" /\ error' = "OSError: transcript"
  /\ UNCHANGED <<job_folder, txt_path, pdf_path, txt_data, pdf_data, job_number, sheets,
                 rb_data, clock, all_results, grouped, counts, report, summary,
                 split_vars, call_vars, other>>

\* TXTParser.load lines 71-80: _split_pages and the seven section extractors
ExtractTxt ==
  /\ pc = "extract"
  /\ txt_data' = FileNamed(job_folder.txt, txt_path).content
  /\ io_log' = Append(io_log, "extract")
  /\ pc' = "load_pdf"
  /\ UNCHANGED <<job_folder, txt_path, pdf_path, pdf_data, job_number, sheets,
                 rb_data, clock, all_results, grouped, counts, report, summary, error,
                 split_vars, call_vars, other>>

\* lines 836-837
LoadPdf ==
  /\ pc = "load_pdf"
  /\ IF pdf_path # <<>>
     THEN LET r == PDFParser_load(FileNamed(job_folder.pdf, pdf_path).doc)
          IN  /\ io_log' = Append(io_log, "read notice")
              /\ IF r.raised
                 THEN pc' = "raised" /\ error' = "notice" /\ pdf_data' = pdf_data
                 ELSE pc' = "job_number" /\ error' = error /\ pdf_data' = r.value
     ELSE pc' = "job_number" /\ error' = error /\ pdf_data' = EmptyMap /\ io_log' = io_log
  /\ UNCHANGED <<job_folder, txt_path, pdf_path, txt_data, job_number, sheets,
                 rb_data, clock, all_results, grouped, counts, report, summary,
                 split_vars, call_vars, other>>

\* line 839
DeriveJobNumber ==
  /\ pc = "job_number"
  /\ job_number' = _derive_job_number(job_folder.name, txt_path)
  /\ pc' = "get_job_data"
  /\ UNCHANGED <<job_folder, txt_path, pdf_path, txt_data, pdf_data, sheets,
                 rb_data, clock, all_results, grouped, counts, report, summary, error,
                 io_log, split_vars, call_vars, other>>

\* lines 840-841; net is what the three URLs answer during this call
GetJobData(net) ==
  /\ pc = "get_job_data"
  /\ IF job_number # <<>>
     THEN LET r == get_job_data(job_number, net)
          IN  /\ sheets' = net
              /\ io_log' = io_log \o <<"read rb_pull", "read firms", "read exhibits">>
              /\ IF r.raised
                 THEN pc' = "raised" /\ error' = "sheet" /\ rb_data' = rb_data
                 ELSE pc' = "compare" /\ error' = error /\ rb_data' = r.value
     ELSE /\ net = [rb_pull |-> [ok |-> FALSE, frame |-> EmptyFrame],
                    firms |-> [ok |-> FALSE, frame |-> EmptyFrame],
                    exhibits |-> [ok |-> FALSE, frame |-> EmptyFrame]]
          /\ sheets' = sheets /\ io_log' = io_log
          /\ pc' = "compare" /\ error' = error
          /\ rb_data' = [job_number |-> <<>>, fields |-> EmptyMap]
  /\ UNCHANGED <<job_folder, txt_path, pdf_path, txt_data, pdf_data, job_number,
                 clock, all_results, grouped, counts, report, summary,
                 split_vars, call_vars, other>>

\* line 843; dates are what the datetime.today() calls return during it
RunAllComparisons(dates) ==
  /\ pc = "compare"
  /\ clock' = dates
  /\ all_results' = run_all_comparisons(txt_data, pdf_data, rb_data, dates)
  /\ pc' = "organize"
  /\ UNCHANGED <<job_folder, txt_path, pdf_path, txt_data, pdf_data, job_number, sheets,
                 rb_data, grouped, counts, report, summary, error, io_log,
                 split_vars, call_vars, other>>

\* line 844
OrganizeResults ==
  /\ pc = "organize"
  /\ grouped' = organize_results(all_results)
  /\ pc' = "counts"
  /\ UNCHANGED <<job_folder, txt_path, pdf_path, txt_data, pdf_data, job_number, sheets,
                 rb_data, clock, all_results, counts, report, summary, error, io_log,
                 split_vars, call_vars, other>>

\* lines 846-851
CountResults ==
  /\ pc = "counts"
  /\ counts' = [EXACT_MATCH |-> CountIn(all_results, {"EXACT_MATCH"}),
                PARTIAL_MATCH |-> CountIn(all_results, {"PARTIAL_MATCH"}),
                NO_MATCH |-> CountIn(all_results, {"NO_MATCH"}),
                MISSING |-> CountNotIn(all_results, {"EXACT_MATCH", "PARTIAL_MATCH", "NO_MATCH"})]
  /\ pc' = "report"
  /\ UNCHANGED <<job_folder, txt_path, pdf_path, txt_data, pdf_data, job_number, sheets,
                 rb_data, clock, all_results, grouped, report, summary, error, io_log,
                 split_vars, call_vars, other>>

\* lines 853-857: the results go to the report builder; written tells
\* whether doc.build can write QC_Report.pdf into the job folder; glob,
\* whose order is arbitrary, will list a new file before the *.pdf files
\* that are there (first) or after them
BuildReport(written, first) ==
  /\ pc = "report"
  /\ report' = [path |-> ReportName, results_grouped |-> grouped,
                all_results |-> all_results]
  /\ io_log' = Append(io_log, "write report")
  /\ IF written
     THEN /\ job_folder' =
               [job_folder EXCEPT !.pdf =
                  IF \E k \in 1..Len(@) : @[k].name = ReportName
                  THEN [k \in 1..Len(@) |-> IF @[k].name = ReportName THEN ReportFile ELSE @[k]]
                  ELSE IF first THEN <<ReportFile>> \o @ ELSE Append(@, ReportFile)]
          /\ summary' = [job_number |-> job_number,
                         witness_name |-> LET w == Get(txt_data.title, "witness_name", None)
                                          IN  IF Truthy(w) THEN w ELSE <<>>,
                         counts |-> counts]
          /\ pc' = "returned" /\ error' = error
     ELSE /\ job_folder' = job_folder /\ summary' = summary
          /\ pc' = "raised" /\ error' = "OSError: report"
  /\ UNCHANGED <<txt_path, pdf_path, txt_data, pdf_data, job_number, sheets,
                 rb_data, clock, all_results, grouped, counts,
                 split_vars, call_vars, other>>

\* transcripts in which the sections are all empty or all filled; a8.txt
\* is one with a title page and indices but no ending and no certificate
RunTranscripts ==
  {d \in TXTDataSamples \ {FreshTXTData} :
     /\ (d.title = TitleBlank) <=> (d.indices.exam_pages = <<>>)
     /\ (d.title = TitleBlank) <=> (d.ending.end_time = <<>>)
     /\ (d.title = TitleBlank) <=> (d.certificate.block = <<>>)}

TxtFileSamples ==
  {[name |-> <<"a", ".", "t", "x", "t">>, readable |-> FALSE, content |-> FreshTXTData]}
    \cup [name : {<<"a", ".", "t", "x", "t">>}, readable : {TRUE}, content : RunTranscripts]
    \cup [name : {<<"a", "8", ".", "t", "x", "t">>}, readable : {TRUE},
          content : {d \in TXTDataSamples \ {FreshTXTData} :
                       /\ d.title = TitleFull /\ d.appearances.sides = <<>>
                       /\ d.indices.exam_pages # <<>>
                       /\ d.ending.end_time = <<>> /\ d.certificate.block = <<>>}]

PdfFileSamples ==
  [name : {<<"n", ".", "p", "d", "f">>},
   doc : {d \in NoticeDocSamples :
            /\ Len(d.pages) = 1
            /\ d.pages[1].result # "none"
            /\ ~d.opens => d.pages[1].result = "raise"}]

FolderSamples ==
  {[isdir |-> FALSE, name |-> <<"G", "o", "n", "e">>, txt |-> <<>>, pdf |-> <<>>]}
    \cup [isdir : {TRUE}, name : {<<"J", "o", "b", "7">>, <<"S", "m", "i", "t", "h">>},
          txt : {<<>>} \cup {<<f>> : f \in TxtFileSamples},
          pdf : {<<>>} \cup {<<f>> : f \in PdfFileSamples}]

RBFrame ==
  [columns |-> <<"JobNo", "Case Court/County", "CaseNo", "CaseFullName", "TaskType",
                 "Witness", "JobDate", "ActualStartTime", "JobLocAddress", "Resource",
                 "ActualEndTime", "OrderingFirm">>,
   rows |-> << RBSame.fields @@ [JobNo |-> <<"7">>, OrderingFirm |-> <<" ", "A", "c", "m", "e", " ">>] >>]

\* an answer that parses as CSV but is not the job sheet
StrayFrame == [columns |-> <<"html">>, rows |-> << [html |-> <<"e", "r", "r", "o", "r">>] >>]

FirmsFrame ==
  [columns |-> <<"Firm name", "Phone">>,
   rows |-> << ("Firm name" :> <<"a", "c", "m", "e">>) @@ [Phone |-> <<"5", "5", "5">>] >>]

ExhibitsFrame ==
  [columns |-> <<"JobNo", "Exhibit count">>,
   rows |-> << ("Exhibit count" :> <<"2">>) @@ [JobNo |-> <<"7">>] >>]

NetSamples ==
  [rb_pull : {[ok |-> FALSE, frame |-> EmptyFrame], [ok |-> TRUE, frame |-> RBFrame],
              [ok |-> TRUE, frame |-> StrayFrame]},
   firms : {[ok |-> FALSE, frame |-> EmptyFrame], [ok |-> TRUE, frame |-> FirmsFrame]},
   exhibits : {[ok |-> FALSE, frame |-> EmptyFrame], [ok |-> TRUE, frame |-> ExhibitsFrame]}]

\* run_qc(job_folder) is called
InitRun ==
  /\ job_folder \in FolderSamples
  /\ pc = "isdir"
  /\ txt_path = <<>> /\ pdf_path = <<>>
  /\ txt_data = <<>> /\ pdf_data = <<>>
  /\ job_number = <<>>
  /\ sheets = <<>> /\ rb_data = <<>>
  /\ clock = <<>>
  /\ all_results = <<>> /\ grouped = <<>> /\ counts = <<>>
  /\ report = <<>> /\ summary = <<>>
  /\ error = "" /\ io_log = <<>>
  /\ other = NoOther

RunInit == InitRun /\ SplitIdle /\ CallIdle

NextRun ==
  \/ CheckFolder
  \/ FindTxt
  \/ FindPdf
  \/ ReadTxt
  \/ ExtractTxt
  \/ LoadPdf
  \/ DeriveJobNumber
  \/ \E net \in NetSamples : GetJobData(net)
  \/ \E dates \in Clocks(6) : RunAllComparisons(dates)
  \/ OrganizeResults
  \/ CountResults
  \/ \E written \in BOOLEAN, first \in BOOLEAN : BuildReport(written, first)

SpecRun == RunInit /\ [][NextRun]_vars

(***************************************************************************)
(* Run QC clicks (qc_app_tk.py): each starts a worker thread that calls    *)
(* run_qc on the selected folder.  The variables of run_qc above are       *)
(* the locals of the invocation whose thread is running, other holds the   *)
(* locals of the invocation whose thread is waiting, job_folder is the     *)
(* folder on disk both work on.                                            *)
(***************************************************************************)
\* the locals of the running invocation
Locals ==
  [pc |-> pc, txt_path |-> txt_path, pdf_path |-> pdf_path, txt_data |-> txt_data,
   pdf_data |-> pdf_data, job_number |-> job_number, sheets |-> sheets,
   rb_data |-> rb_data, clock |-> clock, all_results |-> all_results,
   grouped |-> grouped, counts |-> counts, report |-> report, summary |-> summary,
   error |-> error, io_log |-> io_log]

\* the locals of an invocation that has just been called
StartLocals ==
  [pc |-> "isdir", txt_path |-> <<>>, pdf_path |-> <<>>, txt_data |-> <<>>,
   pdf_data |-> <<>>, job_number |-> <<>>, sheets |-> <<>>,
   rb_data |-> <<>>, clock |-> <<>>, all_results |-> <<>>,
   grouped |-> <<>>, counts |-> <<>>, report |-> <<>>, summary |-> <<>>,
   error |-> "", io_log |-> <<>>]

\* the interpreter hands the processor to the other worker thread
Switch ==
  /\ other.pc \notin {"none", "returned", "raised"}
  /\ other' = Locals
  /\ pc' = other.pc
  /\ txt_path' = other.txt_path /\ pdf_path' = other.pdf_path
  /\ txt_data' = other.txt_data /\ pdf_data' = other.pdf_data
  /\ job_number' = other.job_number
  /\ sheets' = other.sheets /\ rb_data' = other.rb_data
  /\ clock' = other.clock
  /\ all_results' = other.all_results /\ grouped' = other.grouped
  /\ counts' = other.counts
  /\ report' = other.report /\ summary' = other.summary
  /\ error' = other.error /\ io_log' = other.io_log
  /\ UNCHANGED <<job_folder, split_vars, call_vars>>

\* _run_qc_clicked starts a worker only for a folder that is a directory
OverlapFolders ==
  {f \in FolderSamples :
     /\ f.isdir /\ f.txt # <<>> /\ f.name[1] = "J"
     /\ f.txt[1].readable
     /\ f.txt[1].content.title = TitleFull /\ f.txt[1].content.appearances.sides # <<>>}

OverlapNets == {n \in NetSamples : n.rb_pull.ok = n.firms.ok /\ n.firms.ok = n.exhibits.ok
                                   /\ n.rb_pull.frame # StrayFrame}

\* a second click on Run QC while the worker of the first is in run_qc: a
\* second worker is started on the same folder
RunQcClicked ==
  /\ other = NoOther
  /\ pc \notin {"returned", "raised"}
  /\ other' = StartLocals
  /\ UNCHANGED <<job_folder, pc, txt_path, pdf_path, txt_data, pdf_data, job_number,
                 sheets, rb_data, clock, all_results, grouped, counts, report, summary,
                 error, io_log, split_vars, call_vars>>

\* Run QC has been clicked for a folder: its worker has called run_qc
InitOverlap ==
  /\ job_folder \in OverlapFolders
  /\ pc = "isdir"
  /\ txt_path = <<>> /\ pdf_path = <<>>
  /\ txt_data = <<>> /\ pdf_data = <<>>
  /\ job_number = <<>>
  /\ sheets = <<>> /\ rb_data = <<>>
  /\ clock = <<>>
  /\ all_results = <<>> /\ grouped = <<>> /\ counts = <<>>
  /\ report = <<>> /\ summary = <<>>
  /\ error = "" /\ io_log = <<>>
  /\ other = NoOther

OverlapInit == InitOverlap /\ SplitIdle /\ CallIdle

NextOverlap ==
  \/ CheckFolder
  \/ FindTxt
  \/ FindPdf
  \/ ReadTxt
  \/ ExtractTxt
  \/ LoadPdf
  \/ DeriveJobNumber
  \/ \E net \in OverlapNets : GetJobData(net)
  \/ \E dates \in {[k \in 1..6 |-> 0]} : RunAllComparisons(dates)
  \/ OrganizeResults
  \/ CountResults
  \/ \E written \in BOOLEAN, first \in BOOLEAN : BuildReport(written, first)
  \/ RunQcClicked
  \/ Switch

SpecOverlap == OverlapInit /\ [][NextOverlap]_vars

(***************************************************************************)
(* Page segmentation: what the Page Map must be                            *)
(***************************************************************************)
\* line k is a page-break marker: stripped, it is 1 to 4 digits
C1_Marker(k) ==
  LET t == Strip(lines[k])
  IN  Len(t) \in 1..4 /\ \A h \in 1..Len(t) : IsDigit(t[h])

C1_Num(k) == ParseInt(Strip(lines[k]))

\* marker k carries a number not seen before (page 1 is seen from the start)
C1_Opens(k) ==
  /\ C1_Marker(k)
  /\ C1_Num(k) # 1
  /\ \A h \in 1..(k - 1) : C1_Marker(h) => C1_Num(h) # C1_Num(k)

\* the page that is current when line k is read
C1_Current(k) ==
  LET openers == {h \in 1..(k - 1) : C1_Opens(h)}
  IN  IF openers = {} THEN 1
      ELSE C1_Num(CHOOSE h \in openers : \A g \in openers : g <= h)

\* the non-marker lines among the first n that are read while p is current
RECURSIVE C1_LinesOf(_, _)
C1_LinesOf(p, n) ==
  IF n = 0 THEN <<>>
  ELSE IF ~C1_Marker(n) /\ C1_Current(n) = p
       THEN Append(C1_LinesOf(p, n - 1), lines[n])
       ELSE C1_LinesOf(p, n - 1)

\* C1: markers are never stored; an unseen marker number opens a new empty
\* page that becomes current, a seen one is dropped; every other line is
\* appended in order to the page current when it is read; so
\* ["1","Hello","2","World"] gives {1:["Hello"], 2:["World"]} and
\* ["1","A","1","B"] gives {1:["A","B"]}.
C1_PageMap ==
  split_pc = "done" =>
    /\ DOMAIN data_pages = {1} \cup {C1_Num(k) : k \in {h \in 1..Len(lines) : C1_Marker(h)}}
    /\ \A p \in DOMAIN data_pages : data_pages[p] = C1_LinesOf(p, Len(lines))
    /\ current_page = C1_Current(Len(lines) + 1)
    /\ lines = << <<"1">>, <<"H", "e", "l", "l", "o">>, <<"2">>, <<"W", "o", "r", "l", "d">> >>
         => data_pages = (1 :> << <<"H", "e", "l", "l", "o">> >>) @@ (2 :> << <<"W", "o", "r", "l", "d">> >>)
    /\ lines = << <<"1">>, <<"A">>, <<"1">>, <<"B">> >>
         => data_pages = (1 :> << <<"A">>, <<"B">> >>)

\* a finished segmentation with a repeated marker between two text lines and a page opened
C1_Witness ==
  /\ split_pc = "done"
  /\ \E k \in 1..Len(lines) : C1_Opens(k)
  /\ \E k \in 2..(Len(lines) - 1) :
        /\ C1_Marker(k) /\ ~C1_Opens(k)
        /\ ~C1_Marker(k - 1) /\ ~C1_Marker(k + 1)
        /\ Len(data_pages[C1_Current(k)]) >= 2

(***************************************************************************)
(* compare_text: ratings and overall status                                *)
(***************************************************************************)
\* the rating the thresholds 0.90 and 0.60 give a normalized source value
C2_Rating(t_txt, t_src) ==
  IF t_src = <<>> THEN "MISSING"
  ELSE LET s == similar(t_txt, t_src)
       IN  IF 100 * s[1] >= 90 * s[2] THEN "EXACT"
           ELSE IF 100 * s[1] >= 60 * s[2] THEN "PARTIAL"
           ELSE "NONE"

C2_Status(rp, rr) ==
  LET present == {rp, rr} \ {"MISSING"}
  IN  IF present \subseteq {"EXACT"} THEN "EXACT_MATCH"
      ELSE IF "NONE" \in present THEN "NO_MATCH"
      ELSE "PARTIAL_MATCH"

\* C2: with a non-empty normalized transcript value, each non-empty source
\* is rated EXACT (similarity >= 0.90), PARTIAL (>= 0.60 and < 0.90) or NONE
\* (< 0.60), an empty source is MISSING; the status is EXACT_MATCH if every
\* non-missing source is EXACT, else NO_MATCH if one is NONE, else
\* PARTIAL_MATCH.
C2_TextRule ==
  (call.fn = "compare_text" /\ ret.returned /\ normalize_ws(call.txt) # <<>>) =>
    LET rp == C2_Rating(normalize_ws(call.txt), normalize_ws(call.pdf))
        rr == C2_Rating(normalize_ws(call.txt), normalize_ws(call.rb))
    IN  /\ ret.results = <<"PDF_" \o rp, "RB_" \o rr>>
        /\ ret.value.status = C2_Status(rp, rr)

\* a notice at similarity exactly 9/10 rated EXACT next to a PARTIAL record
C2_Witness ==
  /\ call.fn = "compare_text" /\ ret.returned
  /\ similar(normalize_ws(call.txt), normalize_ws(call.pdf)) = <<9, 10>>
  /\ ret.results = <<"PDF_EXACT", "RB_PARTIAL">>
  /\ ret.value.status = "PARTIAL_MATCH"

\* C3: an absent, empty or whitespace-only transcript value gives MISSING
\* whatever the notice and the authoritative values are.
C3_EmptyTranscript ==
  (/\ call.fn = "compare_text" /\ ret.returned
   /\ \/ call.txt = None
      \/ \A k \in 1..Len(call.txt) : call.txt[k] \in WS) =>
    ret.value.status = "MISSING"

\* whitespace-only transcript against equal non-empty notice and record
C3_Witness ==
  /\ call.fn = "compare_text" /\ ret.returned
  /\ call.txt = Blank /\ call.pdf = JaneDoe /\ call.rb = JaneDoe
  /\ ret.value.status = "MISSING"

\* C4: a non-empty transcript value with both the notice value and the
\* authoritative value empty gives MISSING (never EXACT_MATCH).
C4_NoSourceIsMissing ==
  (/\ call.fn = "compare_text" /\ ret.returned
   /\ normalize_ws(call.txt) # <<>>
   /\ normalize_ws(call.pdf) = <<>> /\ normalize_ws(call.rb) = <<>>) =>
    ret.value.status = "MISSING"

(***************************************************************************)
(* similar                                                                 *)
(***************************************************************************)
\* C6: similar is symmetric and within [0, 1]; similar(a, a) = 1.0 for
\* non-empty a; similar("", "") = 1.0; similar("", x) = similar(x, "") = 0.0
\* for non-empty x.
C6_Similar ==
  (call.fn = "similar" /\ ret.returned) =>
    /\ ret.ab[2] > 0 /\ ret.ba[2] > 0
    /\ 0 <= ret.ab[1] /\ ret.ab[1] <= ret.ab[2]
    /\ ret.ab[1] * ret.ba[2] = ret.ba[1] * ret.ab[2]
    /\ (call.a = call.b) => ret.ab[1] = ret.ab[2]
    /\ (call.a = <<>> /\ call.b # <<>>) => (ret.ab[1] = 0 /\ ret.ba[1] = 0)

\* two different strings with a similarity strictly between 0 and 1
C6_Witness ==
  /\ call.fn = "similar" /\ ret.returned
  /\ call.a # call.b
  /\ Len(call.a) < Len(call.b)
  /\ 0 < ret.ab[1] /\ ret.ab[1] < ret.ab[2]

(***************************************************************************)
(* compare_time                                                            *)
(***************************************************************************)
\* |time of day of a - time of day of b| in tenths of a second
C5_Apart(a, b) ==
  LET x == parse_time_val(a) - parse_time_val(b)
  IN  IF x < 0 THEN 0 - x ELSE x

C5_Status(rp, rr) ==
  LET present == {rp, rr} \ {"PDF_MISSING", "RB_MISSING"}
  IN  IF present \subseteq {"PDF_OK", "RB_EXACT"} THEN "EXACT_MATCH" ELSE "NO_MATCH"

\* C5: an unparseable transcript time gives MISSING; otherwise the notice
\* is OK within 5 minutes of the transcript's time of day, NONE further
\* away, MISSING if absent or unparseable; the authoritative value is EXACT
\* within 0.01 minutes, NONE further away, MISSING otherwise; the status is
\* EXACT_MATCH if every non-missing source is OK/EXACT and NO_MATCH if one
\* is NONE.
C5_TimeRule ==
  (call.fn = "compare_time" /\ ret.returned) =>
    IF parse_time_val(call.txt) = NoTime THEN ret.value.status = "MISSING"
    ELSE LET rp == IF parse_time_val(call.pdf) = NoTime THEN "PDF_MISSING"
                   ELSE IF C5_Apart(call.txt, call.pdf) <= 5 * 600 THEN "PDF_OK"
                   ELSE "PDF_NONE"
             rr == IF parse_time_val(call.rb) = NoTime THEN "RB_MISSING"
                   ELSE IF C5_Apart(call.txt, call.rb) <= 6 THEN "RB_EXACT"
                   ELSE "RB_NONE"
         IN  /\ ret.results = <<rp, rr>>
             /\ ret.value.status = C5_Status(rp, rr)

\* the rule of C5 for calls during which the date does not change
C5_TimeRuleSameDay ==
  (call.fn = "compare_time" /\ call.today[1] = call.today[4]) => C5_TimeRule

(***************************************************************************)
(* organize_results                                                        *)
(***************************************************************************)
C7_Count(q, x) == Cardinality({k \in 1..Len(q) : q[k] = x})

C7_Range(q) == {q[k] : k \in 1..Len(q)}

\* the bucket the claim assigns to a status
C7_Bucket(st) ==
  IF st = "EXACT_MATCH" THEN "EXACT"
  ELSE IF st = "PARTIAL_MATCH" THEN "PARTIAL"
  ELSE IF st = "NO_MATCH" THEN "NO"
  ELSE "MISSING"

\* C7: every input result is in exactly one of the buckets EXACT, PARTIAL,
\* NO, MISSING, the one its status names (any other status: MISSING), as
\* often as it is in the input; no bucket holds anything else; each bucket
\* is in ascending order of index.
C7_Partition ==
  (call.fn = "organize_results" /\ ret.returned) =>
    LET B == ret.value
        names == {"EXACT", "PARTIAL", "NO", "MISSING"}
    IN  /\ DOMAIN B = names
        /\ \A x \in C7_Range(call.results) :
             /\ C7_Count(B[C7_Bucket(x.status)], x) = C7_Count(call.results, x)
             /\ \A b \in names \ {C7_Bucket(x.status)} : C7_Count(B[b], x) = 0
        /\ \A b \in names : C7_Range(B[b]) \subseteq C7_Range(call.results)
        /\ \A b \in names : \A k \in 1..(Len(B[b]) - 1) : B[b][k].index <= B[b][k + 1].index

\* a bucket whose two results arrive in descending order of index, next to
\* a result with a status outside the four
C7_Witness ==
  /\ call.fn = "organize_results" /\ ret.returned
  /\ Len(call.results) = 3
  /\ call.results[1].status = "NO_MATCH" /\ call.results[1].index = 3
  /\ call.results[2].status = "ERROR"
  /\ call.results[3].status = "NO_MATCH" /\ call.results[3].index = 1
  /\ Len(ret.value.NO) = 2 /\ Len(ret.value.MISSING) = 1

(***************************************************************************)
(* run_all_comparisons                                                     *)
(***************************************************************************)
\* C8: for every transcript record, notice mapping and authoritative
\* record there are exactly 29 results, with indices 1, 2, ..., 29 in that
\* order, each with one of the four statuses and one of the six group labels.
C8_TwentyNine ==
  (call.fn = "run_all_comparisons" /\ ret.returned) =>
    /\ Len(ret.value) = 29
    /\ \A k \in 1..Len(ret.value) :
         /\ ret.value[k].index = k
         /\ ret.value[k].status \in {"EXACT_MATCH", "PARTIAL_MATCH", "NO_MATCH", "MISSING"}
         /\ ret.value[k].group \in {"Title Page", "Appearances", "Indices", "Ending",
                                    "Disclosure", "Certificate"}

\* a filled transcript record compared against the empty notice mapping
\* and an authoritative record with no fields
C8_Witness ==
  /\ call.fn = "run_all_comparisons" /\ ret.returned
  /\ call.txt_data.title = TitleFull
  /\ call.pdf_data = EmptyMap
  /\ call.rb_data.fields = EmptyMap
  /\ Len(ret.value) = 29

(***************************************************************************)
(* PDFParser.load                                                          *)
(***************************************************************************)
\* the document cannot be opened, or reading one of its pages fails
C9_Unreadable(doc) ==
  ~doc.opens \/ \E k \in 1..Len(doc.pages) : doc.pages[k].result = "raise"

\* the document is readable and every page yields empty text
C9_Textless(doc) ==
  /\ doc.opens
  /\ \A k \in 1..Len(doc.pages) :
       doc.pages[k].result = "none" \/ (doc.pages[k].result = "text" /\ doc.pages[k].text = <<>>)

C10_NoNotice ==
  \/ job_folder.pdf = <<>>
  \/ pdf_path # <<>> /\
       LET doc == (job_folder.pdf[1]).doc
       IN  ~doc.opens \/ \E k \in 1..Len(doc.pages) : doc.pages[k].result = "raise"

\* no job number, or the job sheet could not be fetched, or it has no row of the job
C10_NoRecord ==
  \/ job_number = <<>>
  \/ ~sheets.rb_pull.ok
  \/ \A k \in 1..Len(sheets.rb_pull.frame.rows) :
       \/ "JobNo" \notin DOMAIN sheets.rb_pull.frame.rows[k]
       \/ sheets.rb_pull.frame.rows[k]["JobNo"] # job_number

\* C10: once the transcript has been found and read, a missing or
\* unreadable notice and an unavailable authoritative record never abort
\* the run: it goes on to the 29 comparisons, in which that source's values
\* are empty strings, then aggregates and hands the results to the report
\* builder.
C10_Degrades ==
  /\ pc = "raised" =>
       error \in {"FileNotFoundError: Job folder not found",
                  "FileNotFoundError: No TXT transcript found",
                  "OSError: transcript", "OSError: report"}
  /\ pc \in {"extract", "load_pdf", "job_number", "get_job_data"} => ENABLED NextRun
  /\ pc \in {"organize", "counts", "report", "returned"} \/ error = "OSError: report" =>
       /\ Len(all_results) = 29
       /\ C10_NoNotice => \A k \in 1..29 : all_results[k].pdf = <<>>
       /\ C10_NoRecord => \A k \in 1..29 : all_results[k].rb = <<>>
  /\ pc = "returned" \/ error = "OSError: report" =>
       /\ report.all_results = all_results
       /\ \A b \in {"EXACT", "PARTIAL", "NO", "MISSING"} :
            \A k \in 1..29 : (\E h \in 1..Len(report.results_grouped[b]) :
                                 report.results_grouped[b][h] = all_results[k])
                             <=> (b = (IF all_results[k].status = "EXACT_MATCH" THEN "EXACT"
                                       ELSE IF all_results[k].status = "PARTIAL_MATCH" THEN "PARTIAL"
                                       ELSE IF all_results[k].status = "NO_MATCH" THEN "NO"
                                       ELSE "MISSING"))

\* a run that returns although reading the notice failed and the job sheet
\* could not be fetched for its job number
C10_Witness ==
  /\ pc = "returned"
  /\ pdf_path # <<>> /\ C10_NoNotice
  /\ job_number # <<>> /\ ~sheets.rb_pull.ok
  /\ txt_data.title = TitleFull
  /\ Len(all_results) = 29

(***************************************************************************)
(* Determinism of the temporal distance                                    *)
(***************************************************************************)
\* C11: the result of time_diff_minutes depends only on its two time
\* arguments: whatever dates the two datetime.today() calls of another run
\* return, that run's result on the same times is the same.
C11_DependsOnTimesOnly ==
  (call.fn = "time_diff_minutes" /\ ret.returned) =>
    \A c \in Clocks(2) :
      time_diff_minutes(call.t1, call.t2, c[1], c[2]) = ret.value

\* the distance is the one between the times of day in every call during
\* which the date does not change
C11_SameDate ==
  (call.fn = "time_diff_minutes" /\ ret.returned /\ call.today[1] = call.today[2]
     /\ call.t1 # NoTime /\ call.t2 # NoTime) =>
    ret.value = <<Abs(call.t1 - call.t2), TenthsPerMinute>>

(***************************************************************************)
(* Page segmentation: order of the page numbers                            *)
(***************************************************************************)
\* C12: page numbers never decrease in document order: a marker that opens
\* a page carries a number greater than every page opened before it, so
\* while the lines are processed the current page is the greatest page of
\* the Page Map.
C12_Monotone == \A p \in DOMAIN pages : p <= current_page

(***************************************************************************)
(* Page segmentation: the Page Map only grows                              *)
(***************************************************************************)
C13_Prefix(a, b) == Len(a) <= Len(b) /\ SubSeq(b, 1, Len(a)) = a

\* C13: at every step of the segmentation page 1 is in the Page Map, also
\* when there are no lines; a page once opened stays, also with zero
\* lines; and the lines of a page are only ever extended at the end.
C13_OnlyGrows ==
  /\ [](/\ split_pc \in {"loop", "done"} => 1 \in DOMAIN pages
        /\ split_pc = "done" => data_pages = pages)
  /\ [][\A p \in DOMAIN pages :
          /\ p \in DOMAIN pages'
          /\ C13_Prefix(pages[p], pages'[p])]_vars

\* a finished segmentation that opened a page after lines were stored, left
\* a page without lines and appended to a page that already had a line
C13_Witness ==
  /\ split_pc = "done"
  /\ \E p \in DOMAIN data_pages : p # 1 /\ data_pages[p] = <<>>
  /\ \E p \in DOMAIN data_pages : Len(data_pages[p]) >= 2
  /\ Cardinality(DOMAIN data_pages) >= 3

(***************************************************************************)
(* run_qc: the external reads and the extraction                           *)
(***************************************************************************)
\* how often entry e is in the log of the run
C14_Times(e) == Cardinality({k \in 1..Len(io_log) : io_log[k] = e})

\* C14: in every run the transcript file, the notice document and the
\* authoritative record are each read exactly once, and all three reads
\* come before any extraction step: when the sections of the transcript are
\* extracted the notice and the record have been read.
C14_ReadsThenExtraction ==
  /\ \A k \in 1..Len(io_log) :
       io_log[k] = "extract" =>
         \A e \in {"read transcript", "read notice", "read rb_pull"} :
           \E h \in 1..(k - 1) : io_log[h] = e
  /\ pc = "returned" =>
       \A e \in {"read transcript", "read notice", "read rb_pull"} : C14_Times(e) = 1

\* what the code does keep: the transcript is read once, before its
\* extraction, and the notice and the record are read at most once, after it
C14_CodeOrder ==
  /\ C14_Times("read transcript") <= 1 /\ C14_Times("read notice") <= 1
  /\ C14_Times("read rb_pull") <= 1 /\ C14_Times("extract") <= 1
  /\ \A k \in 1..Len(io_log) :
       /\ io_log[k] = "extract" => k = 2 /\ io_log[1] = "read transcript"
       /\ io_log[k] \in {"read notice", "read rb_pull"} =>
            \E h \in 1..(k - 1) : io_log[h] = "extract"

(***************************************************************************)
(* Two overlapping invocations of run_qc                                   *)
(***************************************************************************)
\* the *.pdf files of the folder the two workers were started on
C15_Pdfs ==
  LET own(f) == f.name # ReportName IN SelectSeq(job_folder.pdf, own)

\* the notice values an invocation running alone gets from that folder
C15_AlonePdfData ==
  IF C15_Pdfs = <<>> THEN EmptyMap ELSE PDFParser_load(C15_Pdfs[1].doc).value

C15_AsAlone(inv) ==
  inv.pc = "returned" =>
    LET rs == run_all_comparisons(inv.txt_data, C15_AlonePdfData, inv.rb_data, inv.clock)
    IN  /\ inv.all_results = rs
        /\ inv.grouped = organize_results(rs)
        /\ inv.counts = [EXACT_MATCH |-> Len(organize_results(rs)["EXACT"]),
                         PARTIAL_MATCH |-> Len(organize_results(rs)["PARTIAL"]),
                         NO_MATCH |-> Len(organize_results(rs)["NO"]),
                         MISSING |-> Len(organize_results(rs)["MISSING"])]
        /\ inv.report.all_results = rs
        /\ inv.report.results_grouped = organize_results(rs)

\* C15: two invocations of run_qc that overlap, the second started while
\* the first is in progress, share no mutable state: under every
\* interleaving the result list, the buckets, the counts and the report of
\* each are the ones it produces when it runs alone on the folder, for the
\* same sheet answers and dates.
C15_NoSharedState ==
  /\ C15_AsAlone(Locals)
  /\ other.pc # "none" => C15_AsAlone(other)

\* an invocation whose *.pdf lookup is not followed by a report write of the
\* other one before it reads the notice does produce the results of a run alone
C15_AloneUnlessReportFound ==
  /\ pdf_path # ReportName => C15_AsAlone(Locals)
  /\ (other.pc # "none" /\ other.pdf_path # ReportName) => C15_AsAlone(other)

(***************************************************************************)
(* similar: the Jaccard index of the bigram sets                           *)
(***************************************************************************)
\* the pairs of neighbouring characters of the lower-cased string
C16_Windows(s) == {<<Lower(s)[k], Lower(s)[k + 1]>> : k \in 1..(Len(s) - 1)}

\* C16: for non-empty a and b, similar(a, b) is |A /\ B| / |A \/ B| for the
\* sets A, B of 2-character windows of the lower-cased strings; a string of
\* fewer than 2 characters has no window; both sets empty gives 1.0, so two
\* different one-character strings score 1.0 and compare_text rates them
\* EXACT; exactly one set empty gives 0.0.
C16_Jaccard ==
  (call.fn = "similar" /\ ret.returned /\ call.a # <<>> /\ call.b # <<>>) =>
    LET A == C16_Windows(call.a)
        B == C16_Windows(call.b)
    IN  /\ (A = {} /\ B = {}) => ret.ab = <<1, 1>>
        /\ ((A = {}) # (B = {})) => (ret.ab[1] = 0 /\ ret.ab[2] > 0)
        /\ (A # {} /\ B # {}) =>
             /\ ret.ab[2] > 0
             /\ ret.ab[1] * Cardinality(A \cup B) = Cardinality(A \cap B) * ret.ab[2]
        /\ (Len(call.a) = 1 /\ Len(call.b) = 1) => ret.ab = <<1, 1>>
        /\ (Len(call.a) = 1 /\ Len(call.b) = 1 /\ call.a[1] \notin WS /\ call.b[1] \notin WS) =>
             compare_text_results(call.a, call.b, <<>>)[1] = "PDF_EXACT"

\* two different letters compared
C16_Witness ==
  /\ call.fn = "similar" /\ ret.returned
  /\ Len(call.a) = 1 /\ Len(call.b) = 1
  /\ Lower(call.a) # Lower(call.b)
  /\ call.a[1] \notin WS /\ call.b[1] \notin WS
  /\ ret.ab = <<1, 1>>

(***************************************************************************)
(* Result 11: On Behalf of Side Matches Title Page                         *)
(***************************************************************************)
\* x is a run of consecutive characters of y
C17_Occurs(x, y) == \E a \in 0..Len(y), b \in 0..Len(y) : a <= b /\ SubSeq(y, a + 1, b) = x

\* C17: result 11 is EXACT_MATCH iff some extracted role token, whitespace
\* normalized and upper-cased, is a substring of the whitespace-normalized
\* upper-cased case style of the transcript, and NO_MATCH otherwise, so
\* NO_MATCH for an empty role list and for an empty case style; the notice
\* and the authoritative record have no part in it.
C17_SideMatches ==
  (call.fn = "run_all_comparisons" /\ ret.returned) =>
    LET sides == Get(call.txt_data.appearances, "sides", <<>>)
        cap == Upper(normalize_ws(Get(call.txt_data.title, "case_style", <<>>)))
        hit == \E k \in 1..Len(sides) : C17_Occurs(Upper(normalize_ws(sides[k])), cap)
        r == ret.value[11]
    IN  /\ r.index = 11
        /\ r.field = "On Behalf of Side Matches Title Page"
        /\ r.status = IF hit THEN "EXACT_MATCH" ELSE "NO_MATCH"
        /\ (sides = <<>> \/ cap = <<>>) => r.status = "NO_MATCH"
        /\ r.pdf = <<>> /\ r.rb = <<>>

\* a role in the middle of the case style, with a notice and a record that
\* hold other values
C17_Witness ==
  /\ call.fn = "run_all_comparisons" /\ ret.returned
  /\ ret.value[11].status = "EXACT_MATCH"
  /\ Len(call.txt_data.appearances.sides) = 2
  /\ call.pdf_data # EmptyMap
  /\ call.rb_data.fields # EmptyMap

(***************************************************************************)
(* run_qc: the counts and the buckets                                      *)
(***************************************************************************)
\* C18: in every run the four counts of run_qc are the sizes of the four
\* buckets organize_results returns for the same result list, EXACT_MATCH
\* for EXACT, PARTIAL_MATCH for PARTIAL, NO_MATCH for NO, MISSING for
\* MISSING (every status outside the three named ones is counted as
\* MISSING), and they sum to the number of results.
C18_CountsAreBucketSizes ==
  counts # <<>> =>
    /\ grouped = organize_results(all_results)
    /\ counts["EXACT_MATCH"] = Len(grouped["EXACT"])
    /\ counts["PARTIAL_MATCH"] = Len(grouped["PARTIAL"])
    /\ counts["NO_MATCH"] = Len(grouped["NO"])
    /\ counts["MISSING"] = Len(grouped["MISSING"])
    /\ counts["MISSING"] =
         Cardinality({k \in 1..Len(all_results) :
                        all_results[k].status \notin {"EXACT_MATCH", "PARTIAL_MATCH", "NO_MATCH"}})
    /\ counts["EXACT_MATCH"] + counts["PARTIAL_MATCH"] + counts["NO_MATCH"]
         + counts["MISSING"] = Len(all_results)
    /\ pc = "returned" => summary.counts = counts

\* a run that returns counts with no bucket empty
C18_Witness ==
  /\ pc = "returned"
  /\ summary.counts["EXACT_MATCH"] > 0 /\ summary.counts["PARTIAL_MATCH"] > 0
  /\ summary.counts["NO_MATCH"] > 0 /\ summary.counts["MISSING"] > 0

(***************************************************************************)
(* compare_time has no partial match                                       *)
(***************************************************************************)
\* C19: compare_time never returns PARTIAL_MATCH: its status is MISSING
\* when the transcript time cannot be parsed, and otherwise EXACT_MATCH or
\* NO_MATCH, because the notice is rated only OK, NONE or MISSING and the
\* record only EXACT, NONE or MISSING, so every outcome that is not
\* all-OK/EXACT holds a NONE.
C19_NoPartial ==
  (call.fn = "compare_time" /\ ret.returned) =>
    /\ ret.value.status \in {"MISSING", "EXACT_MATCH", "NO_MATCH"}
    /\ ret.value.status = "MISSING" <=> ret.results = <<>>
    /\ ret.results # <<>> =>
         /\ Len(ret.results) = 2
         /\ ret.results[1] \in {"PDF_OK", "PDF_NONE", "PDF_MISSING"}
         /\ ret.results[2] \in {"RB_EXACT", "RB_NONE", "RB_MISSING"}
         /\ ret.value.status = "NO_MATCH" <=>
              (ret.results[1] = "PDF_NONE" \/ ret.results[2] = "RB_NONE")

\* results 7 and 21 of run_all_comparisons are never partial matches
C19_StartAndEndTime ==
  (call.fn = "run_all_comparisons" /\ ret.returned) =>
    /\ ret.value[7].status # "PARTIAL_MATCH" /\ ret.value[21].status # "PARTIAL_MATCH"
    /\ \A k \in 1..Len(organize_results(ret.value)["PARTIAL"]) :
         organize_results(ret.value)["PARTIAL"][k].index \notin {7, 21}

\* a notice time within 5 minutes and a record time that differs
C19_Witness ==
  /\ call.fn = "compare_time" /\ ret.returned
  /\ ret.results = <<"PDF_OK", "RB_NONE">>
  /\ ret.value.status = "NO_MATCH"
  /\ call.today[1] = call.today[4]

====
